---- MODULE Spec2Model ----
(***************************************************************************)
(* Model of src/udf.py (spark-struct-update): update_struct, struct_repl   *)
(* and group_to_primitive over nested column values.                       *)
(*                                                                         *)
(* Strings (paths, field names, type names, string payloads) are sequences *)
(* of one-character strings, so that str.split(".") and ".".join are       *)
(* computed, not assumed.  A column value is a record tagged by k:         *)
(*   struct : f = sequence of [n |-> field name, v |-> value], in order    *)
(*   array  : e = sequence of values                                       *)
(*   prim   : t = type name, null = is SQL NULL, i = integer payload,      *)
(*            s = string payload                                           *)
(*   tagged : the result of the opaque caller-supplied leaf                *)
(*   err    : the expression does not analyse (unknown field, wrong type)  *)
(* Struct values themselves are never NULL in this model.                  *)
(***************************************************************************)
EXTENDS Integers, Sequences, FiniteSets, TLC

VARIABLES pc, op, col, remaining, struct_func, array_path, types, result

vars == <<pc, op, col, remaining, struct_func, array_path, types, result>>

-----------------------------------------------------------------------------
(* Bounds *)

MaxPathLen == 5

MaxArrayLen == 2

-----------------------------------------------------------------------------
(* Strings *)

Dot == "."

S_items == <<"i", "t", "e", "m", "s">>
S_int == <<"i", "n", "t">>
S_bigint == <<"b", "i", "g", "i", "n", "t">>
S_string == <<"s", "t", "r", "i", "n", "g">>

RECURSIVE split(_)
split(s) ==
    IF \A j \in 1..Len(s) : s[j] # Dot
    THEN <<s>>
    ELSE LET d == CHOOSE j \in 1..Len(s) :
                      s[j] = Dot /\ \A m \in 1..(j - 1) : s[m] # Dot
         IN <<SubSeq(s, 1, d - 1)>> \o split(SubSeq(s, d + 1, Len(s)))

RECURSIVE join(_)
join(segs) ==
    IF Len(segs) = 0 THEN <<>>
    ELSE IF Len(segs) = 1 THEN segs[1]
    ELSE segs[1] \o <<Dot>> \o join(Tail(segs))

-----------------------------------------------------------------------------
(* Column values and the column API the code calls *)

Err == [k |-> "err"]

Struct(fields) == [k |-> "struct", f |-> fields]
Field(name, value) == [n |-> name, v |-> value]
Array(elems) == [k |-> "array", e |-> elems]
IntP(t, n) == [k |-> "prim", t |-> t, null |-> FALSE, i |-> n, s |-> <<>>]
StrP(str) == [k |-> "prim", t |-> S_string, null |-> FALSE, i |-> 0, s |-> str]
NullP(t) == [k |-> "prim", t |-> t, null |-> TRUE, i |-> 0, s |-> <<>>]

HasField(c, name) == c.k = "struct" /\ \E j \in 1..Len(c.f) : c.f[j].n = name

FieldOf(c, name) ==
    c.f[CHOOSE j \in 1..Len(c.f) :
            c.f[j].n = name /\ \A m \in 1..(j - 1) : c.f[m].n # name].v

getField(c, name) ==
    IF c.k = "struct"
    THEN IF HasField(c, name) THEN FieldOf(c, name) ELSE Err
    ELSE IF c.k = "array" /\ \A j \in 1..Len(c.e) : HasField(c.e[j], name)
    THEN Array([j \in 1..Len(c.e) |-> FieldOf(c.e[j], name)])
    ELSE Err

withField(c, name, value) ==
    IF c.k # "struct" \/ value = Err THEN Err
    ELSE IF HasField(c, name)
    THEN Struct([j \in 1..Len(c.f) |->
                    IF c.f[j].n = name THEN Field(name, value) ELSE c.f[j]])
    ELSE Struct(Append(c.f, Field(name, value)))

-----------------------------------------------------------------------------
(* Casting and coalescing, as the engine evaluates F.coalesce and .cast *)

Digits == <<"0", "1", "2", "3", "4", "5", "6", "7", "8", "9">>

IsDigit(ch) == \E d \in 1..10 : Digits[d] = ch

DigitVal(ch) == (CHOOSE d \in 1..10 : Digits[d] = ch) - 1

RECURSIVE NatOfStr(_)
NatOfStr(s) ==
    IF Len(s) = 0 THEN 0
    ELSE 10 * NatOfStr(SubSeq(s, 1, Len(s) - 1)) + DigitVal(s[Len(s)])

RECURSIVE StrOfNat(_)
StrOfNat(n) ==
    IF n < 10 THEN <<Digits[n + 1]>>
    ELSE StrOfNat(n \div 10) \o <<Digits[(n % 10) + 1]>>

StrOfInt(n) == IF n < 0 THEN <<"-">> \o StrOfNat(0 - n) ELSE StrOfNat(n)

\* A string the engine parses as an integer: an optional sign, then digits.
IsIntStr(s) ==
    LET body == IF Len(s) > 0 /\ s[1] = "-" THEN Tail(s) ELSE s
    IN Len(body) > 0 /\ \A j \in 1..Len(body) : IsDigit(body[j])

IntOfStr(s) ==
    IF s[1] = "-" THEN 0 - NatOfStr(Tail(s)) ELSE NatOfStr(s)

NumericTypes == {S_int, S_bigint}

KnownTypes == NumericTypes \cup {S_string}

\* Column.cast(t).  Integer payloads of the model fit both integral types.
cast(c, t) ==
    IF c.k # "prim" \/ t \notin KnownTypes THEN Err
    ELSE IF c.null THEN NullP(t)
    ELSE IF c.t = t THEN c
    ELSE IF t = S_string THEN StrP(StrOfInt(c.i))
    ELSE IF c.t = S_string
    THEN IF IsIntStr(c.s) THEN IntP(t, IntOfStr(c.s)) ELSE NullP(t)
    ELSE IntP(t, c.i)

\* The common type F.coalesce widens its arguments to.
WiderType(cs) ==
    IF \A j \in 1..Len(cs) : cs[j].t = cs[1].t THEN cs[1].t
    ELSE IF \A j \in 1..Len(cs) : cs[j].t \in NumericTypes THEN S_bigint
    ELSE S_string

\* F.coalesce(*cols): the first non-null argument, in the common type.
coalesce(cs) ==
    IF Len(cs) = 0 \/ \E j \in 1..Len(cs) : cs[j].k # "prim" THEN Err
    ELSE IF \A j \in 1..Len(cs) : cs[j].null THEN NullP(WiderType(cs))
    ELSE LET first == CHOOSE j \in 1..Len(cs) :
                          ~cs[j].null /\ \A m \in 1..(j - 1) : cs[m].null
         IN cast(cs[first], WiderType(cs))

-----------------------------------------------------------------------------
(* src/udf.py *)

None == [set |-> FALSE, s |-> <<>>]

Some(s) == [set |-> TRUE, s |-> s]

\* Python truthiness of an Optional[str]: None and "" are falsy.
truthy(p) == p.set /\ Len(p.s) > 0

\* Mutant: the last segment instead of the first ([-1] for [0]).
field_name_last(rem) == split(rem)[Len(split(rem))]

field_name(rem) == split(rem)[1]

\* Mutant: the slice starts one segment too far ([2:] for [1:]).
_remaining_skip(rem) == SubSeq(split(rem), 3, Len(split(rem)))

_remaining(rem) == Tail(split(rem))

\* Mutant: the last segment of the array path instead of the first.
a_field_name_last(ap) == split(ap.s)[Len(split(ap.s))]

a_field_name(ap) == split(ap.s)[1]

\* Mutant: the head of the array path is not dropped.
a_remaining_full(ap) == ap.s

a_remaining(ap) == join(Tail(split(ap.s)))

\* Mutant: casts to the last type given instead of the first.
cast_type_last(ts) == ts[Len(ts)]

cast_type(ts) == ts[1]

group_to_primitive(c, rem, ts) ==
    IF Len(ts) = 0 THEN Err
    ELSE cast(coalesce([j \in 1..Len(ts) |-> getField(c, ts[j])]), cast_type(ts))

\* Leaves a caller passes as struct_func.
increment(c, rem, args) ==
    IF c.k = "prim" /\ c.t \in NumericTypes
    THEN IF c.null THEN c ELSE IntP(c.t, c.i + 1)
    ELSE Err

negate(c) ==
    IF c.k = "prim" /\ c.t \in NumericTypes
    THEN IF c.null THEN c ELSE IntP(c.t, 0 - c.i)
    ELSE Err

negate_at(c, rem, args) == withField(c, rem, negate(getField(c, rem)))

tag(c, rem, args) ==
    IF c = Err THEN Err
    ELSE [k |-> "tagged", of |-> c, rem |-> rem, args |-> args]

RECURSIVE update_struct(_, _, _, _, _)
RECURSIVE struct_repl(_, _, _)
RECURSIVE call(_, _, _, _)

\* struct_func(c, rem, *args)
call(func, c, rem, args) ==
    CASE func = "group_to_primitive" -> group_to_primitive(c, rem, args)
      [] func = "struct_repl" -> struct_repl(c, rem, args)
      [] func = "increment" -> increment(c, rem, args)
      [] func = "negate_at" -> negate_at(c, rem, args)
      [] func = "tag" -> tag(c, rem, args)

\* F.transform(c, lambda e: struct_func(e, rem, *args))
transform(c, func, rem, args) ==
    IF c.k # "array" THEN Err
    ELSE LET r == [j \in 1..Len(c.e) |-> call(func, c.e[j], rem, args)]
         IN IF \E j \in 1..Len(r) : r[j] = Err THEN Err ELSE Array(r)

\* Returns [v |-> the column built, log |-> one entry per update_struct
\* frame, outermost first: which branch ran and the field it wrote].
update_struct(c, rem, func, ap, args) ==
    LET fn == field_name(rem)
        rest == _remaining(rem)
    IN IF Len(rest) > 0 /\ Len(fn) > 0
       THEN LET r == update_struct(getField(c, fn), join(rest), func, ap, args)
            IN [v |-> withField(c, fn, r.v),
                log |-> <<[br |-> "descend", f |-> fn]>> \o r.log]
       ELSE IF Len(rest) = 0 /\ Len(fn) > 0 /\ truthy(ap)
       THEN LET r == update_struct(getField(c, fn), <<>>, func, ap, args)
            IN [v |-> withField(c, fn, r.v),
                log |-> <<[br |-> "last", f |-> fn]>> \o r.log]
       ELSE IF ap.set
       THEN [v |-> withField(c, a_field_name(ap),
                       transform(getField(c, a_field_name(ap)),
                                 func, a_remaining(ap), args)),
             log |-> <<[br |-> "array", f |-> a_field_name(ap)]>>]
       ELSE [v |-> withField(c, fn, call(func, getField(c, fn), fn, args)),
             log |-> <<[br |-> "single", f |-> fn]>>]

struct_repl(c, rem, args) ==
    LET _split == split(rem)
        col_name == _split[1]
        remaining_fields == join(Tail(_split))
    IN withField(c, col_name,
           update_struct(getField(c, col_name), remaining_fields,
                         "group_to_primitive", None, args).v)

-----------------------------------------------------------------------------
(* Inputs *)

PathChars == {"a", "b", "c", Dot}

RECURSIVE StringsUpTo(_)
StringsUpTo(n) ==
    IF n = 0 THEN {<<>>}
    ELSE LET shorter == StringsUpTo(n - 1)
         IN shorter \cup {Append(s, ch) : s \in shorter, ch \in PathChars}

\* Every string over PathChars up to the bound, and the path "items".
Paths == StringsUpTo(MaxPathLen) \cup {S_items}

\* A struct of alternative typed representations of one value, its fields
\* named by the type names.
Alternatives(i, s) == Struct(<<Field(S_int, i), Field(S_string, s)>>)

AltList ==
    <<Alternatives(NullP(S_int), StrP(<<"5">>)),
      Alternatives(IntP(S_int, 7), NullP(S_string)),
      Alternatives(NullP(S_int), StrP(<<"x">>)),
      Alternatives(NullP(S_int), NullP(S_string))>>

Alt(j) == AltList[(j % Len(AltList)) + 1]

\* An array element: {x: j, v: {w: alternatives}, u: alternatives}.
Element(j) ==
    Struct(<<Field(<<"x">>, IntP(S_int, j)),
             Field(<<"v">>, Struct(<<Field(<<"w">>, Alt(j))>>)),
             Field(<<"u">>, Alt(j + 1))>>)

Items(n) == Array([j \in 1..n |-> Element(j)])

\* {a: {b: {c: 1, d: 2, items: [..]}, c: alternatives, d: 3, items: [..]},
\*  items: [..], d: 4}
Root ==
    Struct(<<Field(<<"a">>,
                 Struct(<<Field(<<"b">>,
                              Struct(<<Field(<<"c">>, IntP(S_int, 1)),
                                       Field(<<"d">>, IntP(S_int, 2)),
                                       Field(S_items, Items(1))>>)),
                          Field(<<"c">>, Alt(0)),
                          Field(<<"d">>, IntP(S_int, 3)),
                          Field(S_items, Items(MaxArrayLen))>>)),
             Field(S_items, Items(MaxArrayLen)),
             Field(<<"d">>, IntP(S_int, 4))>>)

ArrayPaths ==
    {None, Some(<<>>),
     Some(S_items \o <<Dot, "x">>),
     Some(S_items \o <<Dot, "u">>),
     Some(S_items \o <<Dot, "v", Dot, "w">>)}

SubPaths == {<<>>, <<"x">>, <<"u">>, <<"v">>, <<"v", Dot, "w">>, <<"v", Dot>>}

TypeLists ==
    {<<S_int>>, <<S_string>>, <<S_bigint>>, <<S_int, S_string>>,
     <<S_string, S_int>>, <<S_int, S_bigint, S_string>>,
     <<S_bigint, S_string, S_int>>, <<S_string, S_bigint, S_int>>}

PairTypeLists == {<<S_int, S_string>>, <<S_string, S_int>>}

IntAlts == {NullP(S_int), IntP(S_int, 7)}

BigintAlts == {NullP(S_bigint), IntP(S_bigint, 12)}

StringAlts == {NullP(S_string), StrP(<<"5">>), StrP(<<"x">>), StrP(<<"-", "3">>)}

Groups ==
    {Struct(<<Field(S_int, i), Field(S_bigint, b), Field(S_string, s)>>) :
        i \in IntAlts, b \in BigintAlts, s \in StringAlts}

Funcs == {"group_to_primitive", "struct_repl", "increment", "negate_at", "tag"}

UsesTypes(func) == func \in {"group_to_primitive", "struct_repl"}

NoResult == [v |-> [k |-> "none"], log |-> <<>>]

-----------------------------------------------------------------------------
(* State machine: the inputs of one call are drawn at Init; each action    *)
(* performs one whole call of an entry point and records what it returns.  *)

Init ==
    /\ pc = "call"
    /\ result = NoResult
    /\ \/ /\ op = "update_struct"
          /\ col = Root
          /\ remaining \in Paths
          /\ struct_func \in Funcs
          /\ array_path \in ArrayPaths
          /\ types \in (IF UsesTypes(struct_func) THEN PairTypeLists ELSE {<<>>})
       \/ /\ op = "struct_repl"
          /\ col \in {Element(j) : j \in 1..4}
          /\ remaining \in SubPaths
          /\ struct_func = "group_to_primitive"
          /\ array_path = None
          /\ types \in PairTypeLists
       \/ /\ op = "group_to_primitive"
          /\ col \in Groups
          /\ remaining = <<>>
          /\ struct_func = "group_to_primitive"
          /\ array_path = None
          /\ types \in TypeLists

UpdateStruct ==
    /\ pc = "call"
    /\ op = "update_struct"
    /\ result' = update_struct(col, remaining, struct_func, array_path, types)
    /\ pc' = "done"
    /\ UNCHANGED <<op, col, remaining, struct_func, array_path, types>>

StructRepl ==
    /\ pc = "call"
    /\ op = "struct_repl"
    /\ result' = [v |-> struct_repl(col, remaining, types), log |-> <<>>]
    /\ pc' = "done"
    /\ UNCHANGED <<op, col, remaining, struct_func, array_path, types>>

GroupToPrimitive ==
    /\ pc = "call"
    /\ op = "group_to_primitive"
    /\ result' = [v |-> group_to_primitive(col, remaining, types), log |-> <<>>]
    /\ pc' = "done"
    /\ UNCHANGED <<op, col, remaining, struct_func, array_path, types>>

Next == UpdateStruct \/ StructRepl \/ GroupToPrimitive

Spec == Init /\ [][Next]_vars

-----------------------------------------------------------------------------
(* Vocabulary of the properties *)

Done(o) == pc = "done" /\ op = o

\* The segments a dotted path names; the empty path names none.
Segs(p) == IF p = <<>> THEN <<>> ELSE split(p)

WellFormed(p) == \A j \in 1..Len(Segs(p)) : Segs(p)[j] # <<>>

\* The segments of p before its first empty segment.
NamedPrefix(p) ==
    LET segs == Segs(p)
        stop == {j \in 1..Len(segs) : segs[j] = <<>>}
    IN IF stop = {} THEN segs
       ELSE SubSeq(segs, 1, (CHOOSE j \in stop : \A m \in stop : j <= m) - 1)

\* The value at a chain of struct fields, Err when the chain does not exist.
RECURSIVE Lookup(_, _)
Lookup(c, names) ==
    IF names = <<>> THEN c
    ELSE IF HasField(c, names[1]) THEN Lookup(FieldOf(c, names[1]), Tail(names))
    ELSE Err

\* c with the value at an existing chain of struct fields replaced by value.
RECURSIVE ReplaceAt(_, _, _)
ReplaceAt(c, names, value) ==
    IF names = <<>> THEN value
    ELSE Struct([j \in 1..Len(c.f) |->
                    IF c.f[j].n = names[1]
                    THEN Field(c.f[j].n, ReplaceAt(c.f[j].v, Tail(names), value))
                    ELSE c.f[j]])

\* r has, at every struct level along names, the fields of s in the same
\* order, and the same value for every field that is not the one named.
RECURSIVE SameOutside(_, _, _)
SameOutside(s, r, names) ==
    IF names = <<>> THEN TRUE
    ELSE /\ s.k = "struct"
         /\ r.k = "struct"
         /\ Len(r.f) = Len(s.f)
         /\ \A j \in 1..Len(s.f) :
               /\ r.f[j].n = s.f[j].n
               /\ IF s.f[j].n = names[1]
                  THEN SameOutside(s.f[j].v, r.f[j].v, Tail(names))
                  ELSE r.f[j].v = s.f[j].v

\* The fields the call addresses: the named main path, then the head of the
\* array path when one is given.
Touched ==
    NamedPrefix(remaining)
        \o (IF array_path.set THEN <<split(array_path.s)[1]>> ELSE <<>>)

CountBr(log, brs) == Cardinality({j \in 1..Len(log) : log[j].br \in brs})

\* The fields descended through before the frame that broadcast.
Descended(log) == [j \in 1..(Len(log) - 1) |-> log[j].f]

ItemsX == Some(S_items \o <<Dot, "x">>)

\* col with the x of every element of its field items negated.
NegatedItems ==
    LET A == Lookup(col, <<S_items>>)
    IN ReplaceAt(col, <<S_items>>,
           Array([j \in 1..Len(A.e) |->
                     ReplaceAt(A.e[j], <<<<"x">>>>,
                               negate(Lookup(A.e[j], <<<<"x">>>>)))]))

-----------------------------------------------------------------------------
(* Properties *)

\* C1: sibling preservation.  Whenever update_struct builds a column, at the
\* root and at every struct level it descended through the fields are the
\* same, in the same order, and every field the path does not touch keeps
\* its value; with and without an array path.
C1_SiblingPreservation ==
    Done("update_struct") /\ result.v # Err
        => SameOutside(col, result.v, Touched)

C1_Witness ==
    /\ Done("update_struct")
    /\ array_path.set
    /\ Len(result.log) = 3
    /\ result.v.k = "struct"
    /\ result.v # col

\* C2: plain nested update.  Without an array path, for a path of n >= 1
\* non-empty segments that exists in the root, the result is the root with
\* the value at the path replaced by leaf(old value, last segment, args),
\* and nothing else differs.
C2_PlainNestedUpdate ==
    /\ Done("update_struct")
    /\ ~array_path.set
    /\ remaining # <<>>
    /\ WellFormed(remaining)
    /\ Lookup(col, Segs(remaining)) # Err
    => LET segs == Segs(remaining)
           new == call(struct_func, Lookup(col, segs), segs[Len(segs)], types)
       IN result.v = IF new = Err THEN Err ELSE ReplaceAt(col, segs, new)

C2_Witness ==
    /\ Done("update_struct")
    /\ ~array_path.set
    /\ remaining = <<"a", Dot, "b", Dot, "c">>
    /\ struct_func = "increment"
    /\ Lookup(result.v, <<<<"a">>, <<"b">>, <<"c">>>>) = IntP(S_int, 2)
    /\ Lookup(result.v, <<<<"a">>, <<"b">>, <<"d">>>>) = IntP(S_int, 2)

\* C3 as claimed: with path "items", array path "items.x" and the negating
\* leaf, update_struct returns the root with every element's x negated.
C3_ScenarioB ==
    /\ Done("update_struct")
    /\ remaining = S_items
    /\ array_path = ItemsX
    /\ struct_func = "negate_at"
    => result.v = NegatedItems

\* C3 amended: with the empty path (the array path is resolved in the struct
\* the main path ends at, here the root), array path "items.x" and the
\* negating leaf, update_struct returns the root with every element's x
\* negated.
C3_ScenarioB_EmptyPath ==
    /\ Done("update_struct")
    /\ remaining = <<>>
    /\ array_path = ItemsX
    /\ struct_func = "negate_at"
    => result.v = NegatedItems

C3_Witness ==
    /\ Done("update_struct")
    /\ remaining = <<>>
    /\ array_path = ItemsX
    /\ struct_func = "negate_at"
    /\ Lookup(Lookup(result.v, <<S_items>>).e[2], <<<<"x">>>>) = IntP(S_int, 0 - 2)

\* C4: array order and length.  When the broadcast runs at a struct whose
\* field af holds an array A, that field then holds an array of the same
\* length whose element i is leaf(A[i], rest, args), for every i.
C4_ArrayBroadcast ==
    LET log == result.log
        cur == Lookup(col, Descended(log))
        af == split(array_path.s)[1]
        rest == join(Tail(split(array_path.s)))
        A == Lookup(cur, <<af>>)
    IN /\ Done("update_struct")
       /\ array_path.set
       /\ A.k = "array"
       /\ \A j \in 1..Len(A.e) : call(struct_func, A.e[j], rest, types) # Err
       => LET R == Lookup(result.v, Append(Descended(log), af))
          IN /\ log[Len(log)].br = "array"
             /\ R.k = "array"
             /\ Len(R.e) = Len(A.e)
             /\ \A j \in 1..Len(A.e) :
                   R.e[j] = call(struct_func, A.e[j], rest, types)

C4_Witness ==
    /\ Done("update_struct")
    /\ remaining = <<"a">>
    /\ array_path = ItemsX
    /\ struct_func = "tag"
    /\ Len(Lookup(result.v, <<<<"a">>, S_items>>).e) = MaxArrayLen
    /\ MaxArrayLen >= 2

\* C5: coalesce.  group_to_primitive returns the value of the first
\* alternative, in list order, that is non-null, cast to the first type of
\* the list; null of the first type when every alternative is null.
C5_Coalesce ==
    /\ Done("group_to_primitive")
    /\ \A j \in 1..Len(types) : HasField(col, types[j])
    => LET nonnull == {j \in 1..Len(types) : ~FieldOf(col, types[j]).null}
       IN /\ result.v.k = "prim"
          /\ result.v.t = types[1]
          /\ IF nonnull = {} THEN result.v = NullP(types[1])
             ELSE LET first == CHOOSE j \in nonnull : \A m \in nonnull : j <= m
                  IN result.v = cast(FieldOf(col, types[first]), types[1])

C5_Witness ==
    /\ Done("group_to_primitive")
    /\ types = <<S_int, S_bigint, S_string>>
    /\ FieldOf(col, S_int).null
    /\ FieldOf(col, S_bigint).null
    /\ FieldOf(col, S_string) = StrP(<<"5">>)
    /\ result.v = IntP(S_int, 5)

\* C6 as claimed: for a sub-path of k >= 1 non-empty segments that leads to
\* a struct of alternatives in the element, struct_repl returns the element
\* with that struct replaced by its coalesced primitive; k = 1 included.
C6_StructRepl ==
    /\ Done("struct_repl")
    /\ remaining # <<>>
    /\ WellFormed(remaining)
    /\ \A j \in 1..Len(types) : HasField(Lookup(col, Segs(remaining)), types[j])
    => result.v = ReplaceAt(col, Segs(remaining),
                      group_to_primitive(Lookup(col, Segs(remaining)), <<>>, types))

\* C7 as claimed: with the empty path and no array path, update_struct
\* applies the leaf to the current value itself and neither reads nor writes
\* a field whose name is the empty string.
C7_EmptyPath ==
    /\ Done("update_struct")
    /\ remaining = <<>>
    /\ ~array_path.set
    => /\ result.v = call(struct_func, col, <<>>, types)
       /\ \A j \in 1..Len(result.log) : result.log[j].f # <<>>

\* C8 as claimed: a path with an empty segment is rejected, with or without
\* an array path: update_struct returns no rebuilt value.
C8_EmptySegmentRejected ==
    /\ Done("update_struct")
    /\ remaining # <<>>
    /\ ~WellFormed(remaining)
    => result.v = Err

\* C9 as claimed: for a path of n segments update_struct uses at most n + 1
\* nested calls and performs exactly n field replacements along the main
\* path plus at most one array broadcast.
C9_Termination ==
    Done("update_struct")
        => LET n == Len(Segs(remaining))
           IN /\ Len(result.log) <= n + 1
              /\ CountBr(result.log, {"descend", "last", "single"}) = n
              /\ CountBr(result.log, {"array"}) <= 1

\* C10 as claimed: with a non-null array path (the empty string included)
\* the broadcast runs only at the struct reached after every segment of the
\* main path was descended through.  Stated here for the paths that have no
\* empty segment, which already include the failing ones.
C10_MainPathPriority ==
    /\ Done("update_struct")
    /\ array_path.set
    /\ WellFormed(remaining)
    /\ CountBr(result.log, {"array"}) > 0
    => Descended(result.log) = Segs(remaining)

====
